---------------------------- MODULE Spec2Model ----------------------------
(***************************************************************************)
(* Model of src/4-create-database.py (class ForvoProcessor): the metadata  *)
(* aggregator, the snippet renderer, the icon resolver, the audio locator  *)
(* and the store writer with its two SQLite stores.                        *)
(*                                                                         *)
(* Text is modelled by TLA+ strings, built with \o exactly where the code  *)
(* builds it with f-strings.  A store is modelled by the committed image   *)
(* of its file (db, simple_db) and, per open connection, the image the     *)
(* connection sees inside its implicit transaction (conn, simple_conn):    *)
(* commit() copies the latter to the former, close() without commit drops  *)
(* it.  The column created_at (a wall-clock timestamp) is left out.        *)
(***************************************************************************)
EXTENDS Integers, Sequences, FiniteSets, TLC

VARIABLES
    root_exists,        \* self.root_dir.exists() (audio_dir is the same path)
    icons_exists,       \* self.icons_dir.exists()
    metadata_exists,    \* self.metadata_file.exists()
    log,                \* the lines of metadata.jsonl, already read as JSON or bad
    audio_fs,           \* the audio files on disk (relative paths)
    icon_fs,            \* the file names in the icons directory
    country_mappings,   \* self.country_mappings: lowercase name -> iso_code
    pc,                 \* where the process is in run() / process_metadata()
    interrupted,        \* self.interrupted
    db,                 \* committed content of the complex store file
    simple_db,          \* committed content of the simple store file
    conn,               \* self.conn: None or the image inside its transaction
    simple_conn,        \* self.simple_conn: likewise
    line_count,         \* lines of the log consumed so far
    word_audio_map,     \* insertion-ordered dict: sequence of [key, list]
    gi,                 \* index of the group the flush loop is at
    ai,                 \* index of the audio record the inner loop is at
    html_content,       \* local html_content of the group being written
    word_id,            \* local word_id (cursor.lastrowid)
    word_count,         \* local word_count
    run_no,             \* which invocation of main() this is
    failures,           \* sqlite3.Error raised so far by INSERT statements
    completed,          \* keys of the groups this invocation wrote completely
    batches,            \* batch commits of both stores this invocation made
    history,            \* how the earlier invocations ended
    audio_data,         \* argument of a direct generate_html_content call
    html_out            \* its result

envVars == <<root_exists, icons_exists, metadata_exists, log, audio_fs, icon_fs,
             country_mappings>>
procVars == <<pc, interrupted, conn, simple_conn, line_count, word_audio_map, gi,
              ai, html_content, word_id, word_count>>
storeVars == <<db, simple_db>>
ghostVars == <<run_no, failures, completed, batches, history>>
runVars == <<run_no, history>>
renderVars == <<audio_data, html_out>>
vars == <<envVars, procVars, storeVars, ghostVars, renderVars>>

-----------------------------------------------------------------------------
(* Bounds of the model *)

\* longest metadata log
MaxLines == 3
\* longest record list handed directly to the renderer
MaxRecords == 3
\* sqlite3.Error raised by INSERT statements, over all invocations
MaxFailures == 1
\* the commit cadence `word_count % 1000 == 0`, scaled down
BatchSize == 2

-----------------------------------------------------------------------------
(* Values *)

None == "<None>"

\* str.lower() on the texts the model uses
Lower(s) ==
    CASE s = "France" -> "france"
      [] s = "FRANCE" -> "france"
      [] s = "Japan"  -> "japan"
      [] s = "Male"   -> "male"
      [] s = "Female" -> "female"
      [] s = "Atlantis" -> "atlantis"
      [] s = "Other" -> "other"
      [] OTHER -> s

\* dict.get(key) -> value or None
DictGet(d, k) == IF k \in DOMAIN d THEN d[k] ELSE None

-----------------------------------------------------------------------------
(* Icon Resolver: get_icon_path *)

icon_patterns(gender_prefix, iso_code) ==
    << gender_prefix \o iso_code \o ".svg",
       "_" \o iso_code \o ".svg",
       iso_code \o ".svg" >>

RECURSIVE FirstExisting(_, _)
FirstExisting(patterns, i) ==
    IF i > Len(patterns) THEN None
    ELSE IF patterns[i] \in icon_fs THEN "icons/" \o patterns[i]
    ELSE FirstExisting(patterns, i + 1)

get_icon_path(gender, country) ==
    LET gender_prefix == IF gender # "" /\ Lower(gender) \in {"male", "female"}
                         THEN Lower(gender) \o "_" ELSE ""
        country_info == DictGet(country_mappings, Lower(country))
    IN  IF country_info = None THEN None
        ELSE FirstExisting(icon_patterns(gender_prefix, country_info), 1)

-----------------------------------------------------------------------------
(* Audio Locator: check_audio_file_exists *)

extensions == <<".opus", ".mp3", ".ogg">>

RECURSIVE FirstAudio(_, _, _, _)
FirstAudio(language, username, headword, i) ==
    IF i > Len(extensions) THEN None
    ELSE LET p == language \o "/" \o username \o "/" \o headword \o extensions[i]
         IN  IF p \in audio_fs THEN p
             ELSE FirstAudio(language, username, headword, i + 1)

check_audio_file_exists(language, username, headword) ==
    FirstAudio(language, username, headword, 1)

-----------------------------------------------------------------------------
(* Snippet Renderer: generate_html_content *)

\* sorted(audio_data, key=votes, reverse=True): Python's sort is stable, also
\* under reverse=True, so an element goes after every element whose votes are
\* greater or equal.
RECURSIVE InsertSorted(_, _)
InsertSorted(s, x) ==
    IF s = <<>> THEN <<x>>
    ELSE IF Head(s).votes >= x.votes THEN <<Head(s)>> \o InsertSorted(Tail(s), x)
    ELSE <<x>> \o s

\* the bug of sorting ascending and reversing: ties come out reversed
RECURSIVE InsertSortedUnstable(_, _)
InsertSortedUnstable(s, x) ==
    IF s = <<>> THEN <<x>>
    ELSE IF Head(s).votes > x.votes
         THEN <<Head(s)>> \o InsertSortedUnstable(Tail(s), x)
    ELSE <<x>> \o s

RECURSIVE SortInto(_, _)
SortInto(audio_list, acc) ==
    IF audio_list = <<>> THEN acc
    ELSE SortInto(Tail(audio_list), InsertSorted(acc, Head(audio_list)))

RECURSIVE SortIntoUnstable(_, _)
SortIntoUnstable(audio_list, acc) ==
    IF audio_list = <<>> THEN acc
    ELSE SortIntoUnstable(Tail(audio_list), InsertSortedUnstable(acc, Head(audio_list)))

sorted_unstable(audio_list) == SortIntoUnstable(audio_list, <<>>)

sorted_by_votes(audio_list) == SortInto(audio_list, <<>>)

\* the f-string audio_html, kept as the values interpolated into it
audio_html(audio, icon_path) ==
    [ tag   |-> "pronunciation-item",
      href  |-> "sound://" \o audio.file_path,
      title |-> audio.username \o " (" \o audio.country \o ")" \o
                (IF audio.votes > 0
                 THEN " - " \o ToString(audio.votes) \o " votes" ELSE ""),
      src   |-> icon_path,
      alt   |-> audio.username,
      vote_count |-> IF audio.votes > 0 THEN ToString(audio.votes) ELSE "" ]

\* the fixed parts of html_parts, as records of the same shape as audio_html
Fixed(tag) ==
    [tag |-> tag, href |-> "", title |-> "", src |-> "", alt |-> "", vote_count |-> ""]

WrapperOpen == Fixed("<div class=audio-pronunciations>")

StyleBlock == Fixed("<style>")

WrapperClose == Fixed("</div>")

\* the bug of rendering a record whose icon is missing
RECURSIVE RenderItemsNoSkip(_)
RenderItemsNoSkip(sorted_audio) ==
    IF sorted_audio = <<>> THEN <<>>
    ELSE LET audio == Head(sorted_audio)
         IN  <<audio_html(audio, get_icon_path(audio.gender, audio.country))>>
             \o RenderItemsNoSkip(Tail(sorted_audio))

\* the loop of generate_html_content over sorted_audio
RECURSIVE RenderItems(_)
RenderItems(sorted_audio) ==
    IF sorted_audio = <<>> THEN <<>>
    ELSE LET audio == Head(sorted_audio)
             icon_path == get_icon_path(audio.gender, audio.country)
         IN  IF icon_path = None THEN RenderItems(Tail(sorted_audio))
             ELSE <<audio_html(audio, icon_path)>> \o RenderItems(Tail(sorted_audio))

\* html_parts of generate_html_content; ''.join(html_parts) is kept as the list
HtmlParts(items) ==
    <<WrapperOpen>> \o items \o (IF items # <<>> THEN <<StyleBlock>> ELSE <<>>)
    \o <<WrapperClose>>

generate_html_content(audio_list) ==
    HtmlParts(RenderItems(sorted_by_votes(audio_list)))

-----------------------------------------------------------------------------
(* The two SQLite stores *)

\* a store file, or a connection's view of it: the tables' rows and the
\* AUTOINCREMENT counters (sqlite_sequence), which are part of the transaction
EmptyComplex == [words |-> {}, words_seq |-> 0, audio_files |-> {}, audio_seq |-> 0]

EmptySimple == [mdx |-> {}, mdx_seq |-> 0]

\* no store file yet
NoComplexFile == [schema |-> FALSE, image |-> EmptyComplex]

NoSimpleFile == [schema |-> FALSE, image |-> EmptySimple]

\* self.conn = None / self.simple_conn = None, and a closed connection
NoConn == [open |-> FALSE, image |-> EmptyComplex]

NoSimpleConn == [open |-> FALSE, image |-> EmptySimple]

\* the bug of a plain INSERT that keeps the row of an earlier run
InsertWordKeepOld(image, language, headword, html, count) ==
    LET id == image.words_seq + 1
        row == [id |-> id, language |-> language, headword |-> headword,
                html_content |-> html, audio_count |-> count]
    IN  [image EXCEPT !.words = @ \cup {row}, !.words_seq = id]

\* INSERT OR REPLACE INTO words (language, headword, html_content, audio_count):
\* UNIQUE(language, headword) removes the conflicting row, the new row takes a
\* fresh AUTOINCREMENT id
InsertOrReplaceWord(image, language, headword, html, count) ==
    LET id == image.words_seq + 1
        row == [id |-> id, language |-> language, headword |-> headword,
                html_content |-> html, audio_count |-> count]
    IN  [image EXCEPT
            !.words = {w \in @ : ~(w.language = language /\ w.headword = headword)}
                      \cup {row},
            !.words_seq = id]

\* INSERT INTO audio_files (word_id, username, ...): always a new row
InsertAudioFile(image, wid, audio) ==
    LET id == image.audio_seq + 1
        row == [id |-> id, word_id |-> wid, username |-> audio.username,
                gender |-> audio.gender, country |-> audio.country,
                votes |-> audio.votes, file_path |-> audio.file_path,
                download_url |-> audio.download_url, audio_id |-> audio.audio_id]
    IN  [image EXCEPT !.audio_files = @ \cup {row}, !.audio_seq = id]

\* INSERT OR REPLACE INTO mdx (entry, paraphrase, language, audio_count)
InsertOrReplaceMdx(image, entry, paraphrase, language, count) ==
    LET id == image.mdx_seq + 1
        row == [id |-> id, entry |-> entry, paraphrase |-> paraphrase,
                language |-> language, audio_count |-> count]
    IN  [image EXCEPT
            !.mdx = {m \in @ : ~(m.entry = entry /\ m.language = language)}
                    \cup {row},
            !.mdx_seq = id]

-----------------------------------------------------------------------------
(* Metadata Aggregator: one line of the log *)

\* urllib.parse.unquote on the texts the model uses
Unquote(s) ==
    CASE s = "r%C3%BCn" -> "rün"
      [] s = "c%61t" -> "cat"
      [] OTHER -> s

\* a line that json.loads accepts; query_word = None when the field is absent
Line(language, headword, query_word, origin, votes, id) ==
    [bad |-> FALSE, language |-> language, headword |-> headword,
     query_word |-> query_word, origin |-> origin, votes |-> votes,
     download_url |-> "http://dl/" \o ToString(id), id |-> id]

\* a line on which json.loads raises JSONDecodeError
BadLine ==
    [bad |-> TRUE, language |-> "", headword |-> "", query_word |-> None,
     origin |-> <<>>, votes |-> 0, download_url |-> "", id |-> 0]

\* the bug of taking the differing query_word without decoding it
CorrectedHeadwordRaw(entry) ==
    LET query_word == IF entry.query_word = None THEN entry.headword
                      ELSE entry.query_word
    IN  IF query_word # entry.headword THEN query_word ELSE entry.headword

\* lines 274-276: the headword after the query_word correction
CorrectedHeadword(entry) ==
    LET query_word == IF entry.query_word = None THEN entry.headword
                      ELSE entry.query_word
    IN  IF query_word # entry.headword THEN Unquote(query_word) ELSE entry.headword

\* the bug of defaulting all three fields whenever origin is short
OriginFieldsAllOrNothing(origin) ==
    IF Len(origin) >= 3
    THEN [username |-> origin[1], gender |-> origin[2], country |-> origin[3]]
    ELSE [username |-> "unknown", gender |-> "", country |-> ""]

\* lines 278-284: (username, gender, country) from origin
OriginFields(origin) ==
    IF Len(origin) >= 3
    THEN [username |-> origin[1], gender |-> origin[2], country |-> origin[3]]
    ELSE [username |-> IF Len(origin) > 0 THEN origin[1] ELSE "unknown",
          gender   |-> IF Len(origin) > 1 THEN origin[2] ELSE "",
          country  |-> IF Len(origin) > 2 THEN origin[3] ELSE ""]

\* the bug of aggregating a record whose audio file is missing
ParseLineNoCheck(entry) ==
    IF entry.bad THEN <<>>
    ELSE IF entry.language = "" \/ entry.headword = "" THEN <<>>
    ELSE LET headword == CorrectedHeadword(entry)
             o == OriginFields(entry.origin)
         IN  << <<entry.language, headword>>,
                [username |-> o.username, gender |-> o.gender,
                 country |-> o.country, votes |-> entry.votes,
                 file_path |-> entry.language \o "/" \o o.username \o "/"
                               \o headword \o ".opus",
                 download_url |-> entry.download_url,
                 audio_id |-> entry.id] >>

\* lines 266-304: the record a line contributes, as <<key, record>>, or <<>>
\* when the line is skipped
ParseLine(entry) ==
    IF entry.bad THEN <<>>
    ELSE IF entry.language = "" \/ entry.headword = "" THEN <<>>
    ELSE LET headword == CorrectedHeadword(entry)
             o == OriginFields(entry.origin)
             file_path == check_audio_file_exists(entry.language, o.username, headword)
         IN  IF file_path = None THEN <<>>
             ELSE << <<entry.language, headword>>,
                     [username |-> o.username, gender |-> o.gender,
                      country |-> o.country, votes |-> entry.votes,
                      file_path |-> file_path,
                      download_url |-> entry.download_url,
                      audio_id |-> entry.id] >>

\* word_audio_map[key].append(record) on the insertion-ordered defaultdict
MapAppend(map, key, rec) ==
    IF \E i \in 1..Len(map) : map[i].key = key
    THEN [i \in 1..Len(map) |->
            IF map[i].key = key
            THEN [map[i] EXCEPT !.list = Append(@, rec)] ELSE map[i]]
    ELSE Append(map, [key |-> key, list |-> <<rec>>])

\* the body of `for line in f` for one line
AggregateLine(map, entry) ==
    LET r == ParseLine(entry)
    IN  IF r = <<>> THEN map ELSE MapAppend(map, r[1], r[2])

-----------------------------------------------------------------------------
(* The inputs *)

\* lower-cased original_name -> iso_code, as load_country_mappings builds it
DefaultMappings == [n \in {"france", "japan"} |-> IF n = "france" THEN "FR" ELSE "JP"]

DefaultIcons == {"female_FR.svg", "male_JP.svg", "_FR.svg"}

DefaultAudio ==
    {"en/alice/cat.opus", "en/alice/cat.mp3", "en/bob/cat.mp3", "en/alice/dog.ogg",
     "en/carol/sun.opus", "en/alice/rün.opus", "en/unknown/cat.ogg",
     "fr/alice/cat.opus", "en/alice/.opus"}

\* the lines the store-writer runs are fed
RunLines ==
    { Line("en", "cat", None, <<"alice", "female", "France">>, 5, 1),
      Line("en", "cat", "cat", <<"bob", "male", "Japan">>, 10, 2),
      Line("en", "dog", None, <<"alice", "female", "France">>, 0, 3),
      Line("en", "sun", None, <<"carol">>, 0, 4) }

\* the sequences over S of length at most n
SeqUpTo(S, n) == UNION {[1..k -> S] : k \in 0..n}

\* the state right after ForvoProcessor.__init__ of one invocation
FreshProcess ==
    /\ pc = "start"
    /\ interrupted = FALSE
    /\ conn = NoConn
    /\ simple_conn = NoSimpleConn
    /\ line_count = 0
    /\ word_audio_map = <<>>
    /\ gi = 0
    /\ ai = 0
    /\ html_content = <<>>
    /\ word_id = 0
    /\ word_count = 0
    /\ completed = <<>>
    /\ batches = 0

\* the directory layouts: icons/ and metadata.jsonl live under the root
Layouts ==
    { <<TRUE, TRUE, TRUE>>, <<TRUE, TRUE, FALSE>>, <<TRUE, FALSE, TRUE>>,
      <<TRUE, FALSE, FALSE>>, <<FALSE, FALSE, FALSE>> }

Init ==
    /\ \E l \in Layouts :
          /\ root_exists = l[1]
          /\ icons_exists = l[2]
          /\ metadata_exists = l[3]
          /\ log \in IF l = <<TRUE, TRUE, TRUE>> THEN SeqUpTo(RunLines, MaxLines)
                     ELSE {<<>>}
    /\ audio_fs = DefaultAudio
    /\ icon_fs = DefaultIcons
    /\ country_mappings = DefaultMappings
    /\ FreshProcess
    /\ db = NoComplexFile
    /\ simple_db = NoSimpleFile
    /\ run_no = 1
    /\ failures = 0
    /\ history = <<>>
    /\ audio_data = <<>>
    /\ html_out = <<>>

-----------------------------------------------------------------------------
(* Run Controller: run() *)

\* both connections closed without commit: the open transactions are dropped
CloseConnections ==
    /\ conn' = NoConn
    /\ simple_conn' = NoSimpleConn

\* lines 383-390: a missing directory raises before init_databases; the
\* `finally` finds no connection to close
ValidateLayout ==
    /\ pc = "start"
    /\ pc' = IF root_exists /\ icons_exists THEN "init_complex" ELSE "fatal"
    /\ UNCHANGED <<envVars, storeVars, ghostVars, renderVars, interrupted, conn,
                   simple_conn, line_count, word_audio_map, gi, ai, html_content,
                   word_id, word_count>>

\* lines 77-112: connect (creates the file), CREATE ... IF NOT EXISTS, commit
InitComplex ==
    /\ pc = "init_complex"
    /\ db' = [db EXCEPT !.schema = TRUE]
    /\ conn' = [open |-> TRUE, image |-> db.image]
    /\ pc' = "init_simple"
    /\ UNCHANGED <<envVars, ghostVars, renderVars, simple_db, interrupted,
                   simple_conn, line_count, word_audio_map, gi, ai, html_content,
                   word_id, word_count>>

\* lines 114-134: the same for the simple store
InitSimple ==
    /\ pc = "init_simple"
    /\ simple_db' = [simple_db EXCEPT !.schema = TRUE]
    /\ simple_conn' = [open |-> TRUE, image |-> simple_db.image]
    /\ pc' = "check_metadata"
    /\ UNCHANGED <<envVars, ghostVars, renderVars, db, interrupted, conn,
                   line_count, word_audio_map, gi, ai, html_content, word_id,
                   word_count>>

\* lines 245-255: process_metadata raises when the log is missing; run()'s
\* `finally` closes both connections
OpenMetadata ==
    /\ pc = "check_metadata"
    /\ IF metadata_exists
       THEN /\ pc' = "stream"
            /\ UNCHANGED <<conn, simple_conn>>
       ELSE /\ pc' = "fatal"
            /\ CloseConnections
    /\ UNCHANGED <<envVars, storeVars, ghostVars, renderVars, interrupted,
                   line_count, word_audio_map, gi, ai, html_content, word_id,
                   word_count>>

\* lines 257-313: one iteration of `for line in f`
ReadLine ==
    /\ pc = "stream"
    /\ ~interrupted
    /\ line_count < Len(log)
    /\ line_count' = line_count + 1
    /\ word_audio_map' = AggregateLine(word_audio_map, log[line_count + 1])
    /\ UNCHANGED <<envVars, storeVars, ghostVars, renderVars, pc, interrupted,
                   conn, simple_conn, gi, ai, html_content, word_id, word_count>>

\* lines 258-259, 315-325: the loop ends (end of file, or the flag is set)
EndOfLog ==
    /\ pc = "stream"
    /\ interrupted \/ line_count = Len(log)
    /\ pc' = "flush"
    /\ gi' = 1
    /\ word_count' = 0
    /\ UNCHANGED <<envVars, storeVars, ghostVars, renderVars, interrupted, conn,
                   simple_conn, line_count, word_audio_map, ai, html_content,
                   word_id>>

-----------------------------------------------------------------------------
(* Store Writer: the loop over word_audio_map.items(), lines 327-377 *)

Group == word_audio_map[gi]

\* the bug of counting only the records the renderer kept
rendered_count(audio_list) == Len(RenderItems(sorted_by_votes(audio_list)))

\* lines 337 and 360: the audio_count written is len(audio_list)
audio_count_of(audio_list) == Len(audio_list)

\* the locals of one iteration, cleared when the iteration is left
NextGroup ==
    /\ pc' = "flush"
    /\ gi' = gi + 1
    /\ ai' = 0
    /\ html_content' = <<>>
    /\ word_id' = 0

\* lines 328-339: render the group and INSERT OR REPLACE its Word Entry
WriteWord ==
    /\ pc = "flush"
    /\ ~interrupted
    /\ gi <= Len(word_audio_map)
    /\ LET html == generate_html_content(Group.list)
           image == InsertOrReplaceWord(conn.image, Group.key[1], Group.key[2],
                                        html, audio_count_of(Group.list))
       IN  /\ html_content' = html
           /\ conn' = [conn EXCEPT !.image = image]
           /\ word_id' = image.words_seq
    /\ ai' = 1
    /\ pc' = "audio"
    /\ UNCHANGED <<envVars, storeVars, ghostVars, renderVars, interrupted,
                   simple_conn, line_count, word_audio_map, gi, word_count>>

\* lines 341-355: one INSERT INTO audio_files of the inner loop
WriteAudioFile ==
    /\ pc = "audio"
    /\ conn' = [conn EXCEPT !.image = InsertAudioFile(@, word_id, Group.list[ai])]
    /\ IF ai < Len(Group.list)
       THEN ai' = ai + 1 /\ pc' = pc
       ELSE ai' = 0 /\ pc' = "mdx"
    /\ UNCHANGED <<envVars, storeVars, ghostVars, renderVars, interrupted,
                   simple_conn, line_count, word_audio_map, gi, html_content,
                   word_id, word_count>>

\* the bug of a cadence that is off by one
CadenceOffByOne(n) == n % (BatchSize + 1) = 0

\* line 363: `word_count % 1000 == 0`
CadenceReached(n) == n % BatchSize = 0

\* lines 357-363: INSERT OR REPLACE the Simplified Entry, count the group and
\* test the cadence
WriteMdx ==
    /\ pc = "mdx"
    /\ simple_conn' = [simple_conn EXCEPT !.image =
            InsertOrReplaceMdx(@, Group.key[2], html_content, Group.key[1],
                               audio_count_of(Group.list))]
    /\ word_count' = word_count + 1
    /\ completed' = Append(completed, Group.key)
    /\ IF CadenceReached(word_count + 1)
       THEN /\ pc' = "commit_complex"
            /\ UNCHANGED <<gi, ai, html_content, word_id>>
       ELSE NextGroup
    /\ UNCHANGED <<envVars, storeVars, renderVars, runVars, failures, batches,
                   interrupted, conn, line_count, word_audio_map>>

\* line 364: self.conn.commit() of the batch
BatchCommitComplex ==
    /\ pc = "commit_complex"
    /\ db' = [db EXCEPT !.image = conn.image]
    /\ pc' = "commit_simple"
    /\ UNCHANGED <<envVars, ghostVars, renderVars, simple_db, interrupted, conn,
                   simple_conn, line_count, word_audio_map, gi, ai, html_content,
                   word_id, word_count>>

\* lines 365-366: self.simple_conn.commit() of the batch
BatchCommitSimple ==
    /\ pc = "commit_simple"
    /\ simple_db' = [simple_db EXCEPT !.image = simple_conn.image]
    /\ batches' = batches + 1
    /\ NextGroup
    /\ UNCHANGED <<envVars, renderVars, runVars, failures, completed, db,
                   interrupted, conn, simple_conn, line_count, word_audio_map,
                   word_count>>

\* lines 368-373: an INSERT raised sqlite3.Error; it is logged and the loop
\* continues with the next group.  Nothing is rolled back.
ContinueAfterError ==
    /\ failures < MaxFailures
    /\ failures' = failures + 1
    /\ NextGroup
    /\ UNCHANGED <<envVars, storeVars, renderVars, runVars, completed, batches,
                   interrupted, conn, simple_conn, line_count, word_audio_map,
                   word_count>>

\* the INSERT OR REPLACE INTO words raises
FailWord ==
    /\ pc = "flush"
    /\ ~interrupted
    /\ gi <= Len(word_audio_map)
    /\ ContinueAfterError

\* an INSERT INTO audio_files raises
FailAudioFile ==
    /\ pc = "audio"
    /\ ContinueAfterError

\* the INSERT OR REPLACE INTO mdx raises
FailMdx ==
    /\ pc = "mdx"
    /\ ContinueAfterError

\* lines 327-329, 375: the loop ends (no group left, or the flag is set)
FlushDone ==
    /\ pc = "flush"
    /\ interrupted \/ gi > Len(word_audio_map)
    /\ pc' = "final_complex"
    /\ UNCHANGED <<envVars, storeVars, ghostVars, renderVars, interrupted, conn,
                   simple_conn, line_count, word_audio_map, gi, ai, html_content,
                   word_id, word_count>>

\* line 375: the final self.conn.commit()
FinalCommitComplex ==
    /\ pc = "final_complex"
    /\ db' = [db EXCEPT !.image = conn.image]
    /\ pc' = "final_simple"
    /\ UNCHANGED <<envVars, ghostVars, renderVars, simple_db, interrupted, conn,
                   simple_conn, line_count, word_audio_map, gi, ai, html_content,
                   word_id, word_count>>

\* lines 376-377: the final self.simple_conn.commit()
FinalCommitSimple ==
    /\ pc = "final_simple"
    /\ simple_db' = [simple_db EXCEPT !.image = simple_conn.image]
    /\ pc' = "stats"
    /\ UNCHANGED <<envVars, ghostVars, renderVars, db, interrupted, conn,
                   simple_conn, line_count, word_audio_map, gi, ai, html_content,
                   word_id, word_count>>

\* lines 396-425: the statistics are read and `finally` closes the connections
Finish ==
    /\ pc = "stats"
    /\ CloseConnections
    /\ pc' = "done"
    /\ UNCHANGED <<envVars, storeVars, ghostVars, renderVars, interrupted,
                   line_count, word_audio_map, gi, ai, html_content, word_id,
                   word_count>>

-----------------------------------------------------------------------------
(* signal_handler, lines 47-54 *)

Running ==
    pc \in {"start", "init_complex", "init_simple", "check_metadata", "stream",
            "flush", "audio", "mdx", "commit_complex", "commit_simple",
            "final_complex", "final_simple", "stats"}

\* SIGINT/SIGTERM is delivered between two statements of the main thread: the
\* handler sets the flag, closes both connections (their open transactions are
\* dropped) and raises SystemExit, which no `except Exception` catches
Signal ==
    /\ Running
    /\ interrupted' = TRUE
    /\ CloseConnections
    /\ pc' = "exited"
    /\ UNCHANGED <<envVars, storeVars, ghostVars, renderVars, line_count,
                   word_audio_map, gi, ai, html_content, word_id, word_count>>

\* main() is invoked again on the same root directory and store files; the
\* model follows the first invocation and one re-invocation
Restart ==
    /\ pc \in {"done", "exited", "fatal"}
    /\ run_no = 1
    /\ run_no' = run_no + 1
    /\ history' = Append(history, [how |-> pc, batches |-> batches,
                                   words |-> Cardinality(db.image.words),
                                   mdx |-> Cardinality(simple_db.image.mdx)])
    /\ pc' = "start"
    /\ interrupted' = FALSE
    /\ CloseConnections
    /\ line_count' = 0
    /\ word_audio_map' = <<>>
    /\ gi' = 0
    /\ ai' = 0
    /\ html_content' = <<>>
    /\ word_id' = 0
    /\ word_count' = 0
    /\ completed' = <<>>
    /\ batches' = 0
    /\ UNCHANGED <<envVars, storeVars, renderVars, failures>>

Next ==
    \/ ValidateLayout
    \/ InitComplex
    \/ InitSimple
    \/ OpenMetadata
    \/ ReadLine
    \/ EndOfLog
    \/ WriteWord
    \/ WriteAudioFile
    \/ WriteMdx
    \/ BatchCommitComplex
    \/ BatchCommitSimple
    \/ FailWord
    \/ FailAudioFile
    \/ FailMdx
    \/ FlushDone
    \/ FinalCommitComplex
    \/ FinalCommitSimple
    \/ Finish
    \/ Signal
    \/ Restart

Spec == Init /\ [][Next]_vars

-----------------------------------------------------------------------------
(* The aggregation runs: one invocation on empty stores that no signal and  *)
(* no store error disturbs, over logs of every kind of line                 *)

AggLines ==
    { Line("en", "cat", None, <<"alice", "female", "France">>, 5, 1),
      Line("en", "cat", "cat", <<"bob", "male", "Japan">>, 10, 2),
      Line("en", "cat", None, <<"zed", "male", "Atlantis">>, 7, 3),
      Line("en", "owl", None, <<"zed", "male", "Atlantis">>, 1, 4),
      BadLine,
      Line("", "cat", None, <<"alice", "female", "France">>, 5, 6),
      Line("en", "run", "r%C3%BCn", <<"alice", "female", "France">>, 2, 7),
      Line("en", "cat", None, <<>>, 0, 8),
      Line("en", "sun", None, <<"carol">>, 0, 9),
      Line("en", "dog", None, <<"alice", "female">>, 3, 10),
      Line("fr", "cat", None, <<"alice", "female", "France", "extra">>, 4, 11),
      Line("en", "cat", "", <<"alice", "female", "France">>, 6, 12) }

InitAgg ==
    /\ root_exists = TRUE
    /\ icons_exists = TRUE
    /\ metadata_exists = TRUE
    /\ log \in SeqUpTo(AggLines, MaxLines)
    /\ audio_fs = DefaultAudio
    /\ icon_fs = DefaultIcons
    /\ country_mappings = DefaultMappings
    /\ FreshProcess
    /\ db = NoComplexFile
    /\ simple_db = NoSimpleFile
    /\ run_no = 1
    /\ failures = 0
    /\ history = <<>>
    /\ audio_data = <<>>
    /\ html_out = <<>>

NextAgg ==
    \/ ValidateLayout
    \/ InitComplex
    \/ InitSimple
    \/ OpenMetadata
    \/ ReadLine
    \/ EndOfLog
    \/ WriteWord
    \/ WriteAudioFile
    \/ WriteMdx
    \/ BatchCommitComplex
    \/ BatchCommitSimple
    \/ FlushDone
    \/ FinalCommitComplex
    \/ FinalCommitSimple
    \/ Finish

SpecAgg == InitAgg /\ [][NextAgg]_vars

-----------------------------------------------------------------------------
(* The renderer alone: generate_html_content applied to a record list *)

AudioRecord(username, gender, country, votes) ==
    [username |-> username, gender |-> gender, country |-> country,
     votes |-> votes, file_path |-> "en/" \o username \o "/cat.opus",
     download_url |-> "", audio_id |-> 0]

RenderRecords ==
    { AudioRecord("alice", "female", "France", 5),
      AudioRecord("bob", "male", "Japan", 10),
      AudioRecord("carol", "", "France", 5),
      AudioRecord("dave", "male", "Atlantis", 10),
      AudioRecord("erin", "Female", "FRANCE", 0),
      AudioRecord("frank", "Other", "Japan", 5) }

IconNames == {"female_FR.svg", "_FR.svg", "FR.svg", "male_JP.svg"}

\* load_country_mappings returns {} when the mappings file is missing
NoMappings == [n \in {} |-> ""]

InitRender ==
    /\ root_exists = TRUE
    /\ icons_exists = TRUE
    /\ metadata_exists = TRUE
    /\ log = <<>>
    /\ audio_fs = DefaultAudio
    /\ icon_fs \in SUBSET IconNames
    /\ country_mappings \in {DefaultMappings, NoMappings}
    /\ FreshProcess
    /\ db = NoComplexFile
    /\ simple_db = NoSimpleFile
    /\ run_no = 1
    /\ failures = 0
    /\ history = <<>>
    /\ audio_data \in SeqUpTo(RenderRecords, MaxRecords)
    /\ html_out = <<>>

\* html = self.generate_html_content(audio_data)
Render ==
    /\ pc = "start"
    /\ html_out' = generate_html_content(audio_data)
    /\ pc' = "rendered"
    /\ UNCHANGED <<envVars, storeVars, ghostVars, audio_data, interrupted, conn,
                   simple_conn, line_count, word_audio_map, gi, ai, html_content,
                   word_id, word_count>>

NextRender == Render

SpecRender == InitRender /\ [][NextRender]_vars

-----------------------------------------------------------------------------
(* Vocabulary of the properties *)

\* the elements of a sequence
Range(s) == {s[i] : i \in 1..Len(s)}

\* the pronunciation items of a rendered snippet
ItemsOf(html) == SelectSeq(html, LAMBDA part : part.tag = "pronunciation-item")

\* gender as the Icon Resolver normalises it
NormGender(gender) == IF Lower(gender) \in {"male", "female"} THEN Lower(gender) ELSE ""

\* the three candidate file names of a (gender, country) with a mapped country
Candidates(gender, country) ==
    LET iso == country_mappings[Lower(country)]
        g == NormGender(gender)
    IN  { (IF g = "" THEN "" ELSE g \o "_") \o iso \o ".svg",
          "_" \o iso \o ".svg",
          iso \o ".svg" }

\* no country mapping, or none of the three candidate files exists
IconMiss(r) ==
    \/ Lower(r.country) \notin DOMAIN country_mappings
    \/ Candidates(r.gender, r.country) \cap icon_fs = {}

\* the item is the block of record r
BlockOfRecord(item, r) ==
    /\ item.alt = r.username
    /\ item.href = "sound://" \o r.file_path

RenderedItems == ItemsOf(html_out)

\* C9: a record whose icon cannot be resolved contributes no block to the
\* rendered HTML, whatever its votes, and every record of the same list whose
\* icon resolves contributes exactly one block.
C9_IconMissExclusion ==
    pc = "rendered" =>
        /\ Len(RenderedItems) =
              Cardinality({i \in 1..Len(audio_data) : ~IconMiss(audio_data[i])})
        /\ \A i \in 1..Len(audio_data) :
              LET blocks == {k \in 1..Len(RenderedItems) :
                                BlockOfRecord(RenderedItems[k], audio_data[i])}
              IN  IF IconMiss(audio_data[i])
                  THEN blocks = {}
                  ELSE Cardinality(blocks) =
                       Cardinality({j \in 1..Len(audio_data) :
                                       audio_data[j] = audio_data[i]})

\* a list with an unresolvable record of the highest votes next to a
\* resolvable one has been rendered
C9_Witness ==
    /\ pc = "rendered"
    /\ \E i, j \in 1..Len(audio_data) :
          /\ IconMiss(audio_data[i])
          /\ ~IconMiss(audio_data[j])
          /\ audio_data[i].votes > audio_data[j].votes
          /\ Lower(audio_data[i].country) \in DOMAIN country_mappings
    /\ \E i \in 1..Len(audio_data) :
          Lower(audio_data[i].country) \notin DOMAIN country_mappings
    /\ Len(RenderedItems) = 1

\* C10: the blocks are in order of votes descending, and records of equal
\* votes keep their arrival order: the blocks are the surviving records under
\* a one-to-one assignment that is monotone in (votes descending, position).
C10_StableVoteOrder ==
    pc = "rendered" =>
        \E f \in [1..Len(RenderedItems) -> 1..Len(audio_data)] :
            /\ \A k \in 1..Len(RenderedItems) :
                  BlockOfRecord(RenderedItems[k], audio_data[f[k]])
            /\ \A k, l \in 1..Len(RenderedItems) :
                  k < l =>
                     \/ audio_data[f[k]].votes > audio_data[f[l]].votes
                     \/ /\ audio_data[f[k]].votes = audio_data[f[l]].votes
                        /\ f[k] < f[l]

\* alice (5 votes) arrived before bob (10 votes) and carol (5 votes) after
\* them: bob's block comes first, then alice's, then carol's
C10_Witness ==
    /\ pc = "rendered"
    /\ Len(audio_data) = 3
    /\ audio_data[1].username = "alice"
    /\ audio_data[2].username = "bob"
    /\ audio_data[3].username = "carol"
    /\ Len(RenderedItems) = 3
    /\ RenderedItems[1].alt = "bob"
    /\ RenderedItems[2].alt = "alice"
    /\ RenderedItems[3].alt = "carol"

\* the line is well-formed and its (corrected) key is `key`
LineOfKey(entry, key) ==
    /\ ~entry.bad
    /\ entry.language # ""
    /\ entry.headword # ""
    /\ key = <<entry.language, CorrectedHeadword(entry)>>

\* the audio file of the line exists under one of the accepted extensions
HasAudio(entry) ==
    \E ext \in {".opus", ".mp3", ".ogg"} :
        (entry.language \o "/" \o OriginFields(entry.origin).username \o "/"
         \o CorrectedHeadword(entry) \o ext) \in audio_fs

\* the ids of the first n lines of the log that belong to `key` and have an
\* audio file, in log order
RECURSIVE ResolvedIds(_, _)
ResolvedIds(key, n) ==
    IF n = 0 THEN <<>>
    ELSE IF LineOfKey(log[n], key) /\ HasAudio(log[n])
         THEN Append(ResolvedIds(key, n - 1), log[n].id)
    ELSE ResolvedIds(key, n - 1)

\* the keys the first n lines of the log name
KeysNamed(n) ==
    {<<log[i].language, CorrectedHeadword(log[i])>> :
        i \in {j \in 1..n : ~log[j].bad /\ log[j].language # "" /\ log[j].headword # ""}}

MapKeys == {word_audio_map[i].key : i \in 1..Len(word_audio_map)}

WordRows == db.image.words \cup conn.image.words

MdxRows == simple_db.image.mdx \cup simple_conn.image.mdx

\* C4: after an uninterrupted run on empty stores each (language, headword)
\* key is in at most one Word Entry, and the entry's audio_count is the
\* number of log records of that key whose audio file was resolved.
C4_AggregationCorrect ==
    pc = "done" =>
        /\ \A w1, w2 \in db.image.words :
              (w1.language = w2.language /\ w1.headword = w2.headword) => w1 = w2
        /\ \A w \in db.image.words :
              w.audio_count = Len(ResolvedIds(<<w.language, w.headword>>, Len(log)))

\* a run ended with an entry of two records of which only one has an icon:
\* the count is 2 and the snippet holds one item
C4_Witness ==
    /\ pc = "done"
    /\ \E w \in db.image.words :
          /\ w.audio_count = 2
          /\ Len(ItemsOf(w.html_content)) = 1
    /\ Cardinality(db.image.words) = 2

\* C8: a record without an audio file is dropped and the other records of
\* its key are kept, in order; a key none of whose records has an audio file
\* gets no Word Group, no Word Entry and no Simplified Entry.
C8_MissingAudioDropped ==
    /\ \A i \in 1..Len(word_audio_map) :
          LET g == word_audio_map[i]
          IN  /\ g.list # <<>>
              /\ [k \in 1..Len(g.list) |-> g.list[k].audio_id]
                    = ResolvedIds(g.key, line_count)
    /\ \A key \in KeysNamed(line_count) :
          IF ResolvedIds(key, line_count) = <<>>
          THEN /\ key \notin MapKeys
               /\ \A w \in WordRows : <<w.language, w.headword>> # key
               /\ \A m \in MdxRows : <<m.language, m.entry>> # key
          ELSE key \in MapKeys

\* a run ended on a log in which one key lost a record to a missing audio
\* file and kept another, and one key had no audio file at all
C8_Witness ==
    /\ pc = "done"
    /\ \E i, j, k \in 1..Len(log) :
          /\ LineOfKey(log[i], <<"en", "cat">>) /\ ~HasAudio(log[i])
          /\ LineOfKey(log[j], <<"en", "cat">>) /\ HasAudio(log[j])
          /\ LineOfKey(log[k], <<"en", "owl">>) /\ ~HasAudio(log[k])
    /\ \E w \in db.image.words :
          w.language = "en" /\ w.headword = "cat" /\ w.audio_count = 1
    /\ Cardinality(db.image.words) = 1
    /\ Cardinality(simple_db.image.mdx) = 1

-----------------------------------------------------------------------------
(* Properties of the run: signals, store errors, repeated invocations *)

KeyOfWord(w) == <<w.language, w.headword>>

KeyOfMdx(m) == <<m.language, m.entry>>

\* C1: when a signal arrives the run commits every completed but not yet
\* committed group to both stores before it terminates: after termination
\* every group whose write completed before the signal is in the committed
\* stores.
C1_InterruptCommitsStaged ==
    pc = "exited" =>
        \A i \in 1..Len(completed) :
            /\ \E w \in db.image.words : KeyOfWord(w) = completed[i]
            /\ \E m \in simple_db.image.mdx : KeyOfMdx(m) = completed[i]

\* the groups of the whole log, as the aggregator builds them
RECURSIVE AggregateLog(_)
AggregateLog(n) ==
    IF n = 0 THEN <<>> ELSE AggregateLine(AggregateLog(n - 1), log[n])

RECURSIVE WriteAudioList(_, _, _)
WriteAudioList(image, wid, list) ==
    IF list = <<>> THEN image
    ELSE WriteAudioList(InsertAudioFile(image, wid, Head(list)), wid, Tail(list))

\* the complex store after the first n groups of `map` were written to an
\* empty store without disturbance
RECURSIVE UninterruptedComplex(_, _)
UninterruptedComplex(map, n) ==
    IF n = 0 THEN EmptyComplex
    ELSE LET g == map[n]
             withWord == InsertOrReplaceWord(UninterruptedComplex(map, n - 1),
                            g.key[1], g.key[2], generate_html_content(g.list),
                            audio_count_of(g.list))
         IN  WriteAudioList(withWord, withWord.words_seq, g.list)

\* the simple store likewise
RECURSIVE UninterruptedSimple(_, _)
UninterruptedSimple(map, n) ==
    IF n = 0 THEN EmptySimple
    ELSE LET g == map[n]
         IN  InsertOrReplaceMdx(UninterruptedSimple(map, n - 1), g.key[2],
                                generate_html_content(g.list), g.key[1],
                                audio_count_of(g.list))

ReferenceComplex == UninterruptedComplex(AggregateLog(Len(log)), Len(AggregateLog(Len(log))))

ReferenceSimple == UninterruptedSimple(AggregateLog(Len(log)), Len(AggregateLog(Len(log))))

\* a first run that nothing disturbs leaves exactly the reference stores
ReferenceIsUninterruptedRun ==
    (pc = "done" /\ run_no = 1 /\ failures = 0) =>
        /\ db.image = ReferenceComplex
        /\ simple_db.image = ReferenceSimple

\* C2: a run interrupted after K full batches were committed, followed by a
\* fresh complete run over the same input and store files, leaves both
\* stores equal to those of one uninterrupted run on empty stores.
C2_Resumable ==
    (/\ pc = "done"
     /\ run_no = 2
     /\ failures = 0
     /\ history[1].how = "exited"
     /\ history[1].words = history[1].batches * BatchSize
     /\ history[1].mdx = history[1].batches * BatchSize) =>
        /\ db.image = ReferenceComplex
        /\ simple_db.image = ReferenceSimple

\* C3: when the root directory, the icons directory or the metadata log is
\* missing the run aborts and neither store has been created or changed.
C3_SetupFailureBeforeMutation ==
    (pc = "fatal" /\ run_no = 1) =>
        /\ db = NoComplexFile
        /\ simple_db = NoSimpleFile

\* the groups the flush loop has left behind without completing them
FailedKeys ==
    {word_audio_map[i].key : i \in {j \in 1..Len(word_audio_map) : j < gi}}
        \ Range(completed)

FilePathsOf(key) ==
    UNION {{word_audio_map[i].list[k].file_path : k \in 1..Len(word_audio_map[i].list)} :
              i \in {j \in 1..Len(word_audio_map) : word_audio_map[j].key = key}}

\* C5: a group on which an INSERT raised is skipped as a whole: none of its
\* rows is ever committed to either store.
C5_FailedGroupSkipped ==
    run_no = 1 =>
        \A key \in FailedKeys :
            /\ \A w \in db.image.words : KeyOfWord(w) # key
            /\ \A a \in db.image.audio_files : a.file_path \notin FilePathsOf(key)
            /\ \A m \in simple_db.image.mdx : KeyOfMdx(m) # key

\* the completed groups whose rows are not yet committed in both stores
StagedGroups ==
    {key \in Range(completed) :
        \/ \E w \in conn.image.words \ db.image.words : KeyOfWord(w) = key
        \/ \E m \in simple_conn.image.mdx \ simple_db.image.mdx : KeyOfMdx(m) = key}

C7_SimpleMirrorsComplex ==
    pc \in {"done", "exited", "fatal"} =>
        {<<w.headword, w.language, w.html_content, w.audio_count>> :
            w \in db.image.words}
        = {<<m.entry, m.language, m.paraphrase, m.audio_count>> :
            m \in simple_db.image.mdx}

-----------------------------------------------------------------------------
(* Properties of the aggregator's line handling *)

\* the lines consumed so far that pass the language/headword test of line 271
WellFormed(n) ==
    {i \in 1..n : ~log[i].bad /\ log[i].language # "" /\ log[i].headword # ""}

\* the headword the correction rule prescribes for a line
ClaimedHeadword(entry) ==
    IF entry.query_word # None /\ entry.query_word # entry.headword
    THEN Unquote(entry.query_word)
    ELSE entry.headword

\* the places the audio file of (language, username, headword) may be at
AudioPaths(language, username, headword) ==
    {language \o "/" \o username \o "/" \o headword \o ext :
        ext \in {".opus", ".mp3", ".ogg"}}

\* the records of the group of `key`, as a set
RecordsOf(key) ==
    UNION {Range(word_audio_map[i].list) :
              i \in {j \in 1..Len(word_audio_map) : word_audio_map[j].key = key}}

\* C11: a well-formed line whose query_word is present and differs from its
\* headword is located and grouped under the URL-decoded query_word; a line
\* whose query_word is absent or equal to the headword is located and grouped
\* under the headword unchanged; the Word Entries of a finished run carry
\* exactly these headwords.
C11_HeadwordCorrection ==
    /\ \A i \in WellFormed(line_count) :
          LET e == log[i]
              hw == ClaimedHeadword(e)
              paths == AudioPaths(e.language, OriginFields(e.origin).username, hw)
          IN  IF paths \cap audio_fs # {}
              THEN \E r \in RecordsOf(<<e.language, hw>>) :
                      r.audio_id = e.id /\ r.file_path \in paths
              ELSE \A j \in 1..Len(word_audio_map) :
                      \A r \in Range(word_audio_map[j].list) : r.audio_id # e.id
    /\ \A j \in 1..Len(word_audio_map) :
          \A r \in Range(word_audio_map[j].list) :
              \E i \in WellFormed(line_count) :
                  /\ log[i].id = r.audio_id
                  /\ word_audio_map[j].key =
                        <<log[i].language, ClaimedHeadword(log[i])>>
    /\ pc = "done" =>
          {KeyOfWord(w) : w \in db.image.words} =
          {<<log[i].language, ClaimedHeadword(log[i])>> :
              i \in {k \in WellFormed(Len(log)) :
                        AudioPaths(log[k].language,
                                   OriginFields(log[k].origin).username,
                                   ClaimedHeadword(log[k])) \cap audio_fs # {}}}

\* a run ended on a log with headword "run" / query_word "r%C3%BCn", a line
\* whose query_word equals its headword and a line without query_word: the
\* entries are "rün" and "cat", none is "run"
C11_Witness ==
    /\ pc = "done"
    /\ \E i, j, k \in 1..Len(log) :
          /\ log[i].headword = "run" /\ log[i].query_word = "r%C3%BCn"
          /\ log[j].headword = "cat" /\ log[j].query_word = "cat"
          /\ log[k].headword = "cat" /\ log[k].query_word = None
                /\ log[k].language = "en" /\ Len(log[k].origin) = 3
                /\ log[k].origin[1] = "alice"
    /\ {KeyOfWord(w) : w \in db.image.words} = {<<"en", "rün">>, <<"en", "cat">>}
    /\ \E w \in db.image.words : w.headword = "cat" /\ w.audio_count = 2

\* the rule table of origin defaulting, by the length of origin
ClaimedOrigin(origin) ==
    CASE Len(origin) = 0 -> [username |-> "unknown", gender |-> "", country |-> ""]
      [] Len(origin) = 1 -> [username |-> origin[1], gender |-> "", country |-> ""]
      [] Len(origin) = 2 -> [username |-> origin[1], gender |-> origin[2],
                             country |-> ""]
      [] OTHER -> [username |-> origin[1], gender |-> origin[2],
                   country |-> origin[3]]

\* the audio file of the line exists under the username the table gives
ClaimedAudio(entry) ==
    AudioPaths(entry.language, ClaimedOrigin(entry.origin).username,
               CorrectedHeadword(entry)) \cap audio_fs

\* C12: the username, gender and country of every aggregated record, and of
\* every Audio File Entry of a finished run, are those the rule table gives
\* for the origin of its line (length 0, 1, 2, 3 or more), and a well-formed
\* line of any origin length is aggregated when its audio file exists.
C12_OriginDefaulting ==
    /\ \A j \in 1..Len(word_audio_map) :
          \A r \in Range(word_audio_map[j].list) :
              \E i \in WellFormed(line_count) :
                  /\ log[i].id = r.audio_id
                  /\ r.username = ClaimedOrigin(log[i].origin).username
                  /\ r.gender = ClaimedOrigin(log[i].origin).gender
                  /\ r.country = ClaimedOrigin(log[i].origin).country
    /\ \A i \in WellFormed(line_count) :
          ClaimedAudio(log[i]) # {} =>
              \E j \in 1..Len(word_audio_map) :
                  \E r \in Range(word_audio_map[j].list) :
                      /\ r.audio_id = log[i].id
                      /\ r.file_path \in ClaimedAudio(log[i])
    /\ pc = "done" =>
          {<<a.audio_id, a.username, a.gender, a.country>> :
              a \in db.image.audio_files} =
          {<<log[i].id, ClaimedOrigin(log[i].origin).username,
             ClaimedOrigin(log[i].origin).gender,
             ClaimedOrigin(log[i].origin).country>> :
              i \in {k \in WellFormed(Len(log)) : ClaimedAudio(log[k]) # {}}}

\* a run ended on a log of three lines whose origins have length 0, 1 and 2:
\* the three records are stored as ("unknown", "", ""), ("carol", "", "") and
\* ("alice", "female", "")
C12_Witness ==
    /\ pc = "done"
    /\ {Len(log[i].origin) : i \in 1..Len(log)} = {0, 1, 2}
    /\ {<<a.username, a.gender, a.country>> : a \in db.image.audio_files} =
          {<<"unknown", "", "">>, <<"carol", "", "">>, <<"alice", "female", "">>}

-----------------------------------------------------------------------------
(* Properties of the icon resolver *)

\* the icon of (gender, country) by the stated rule: gender normalised, then
\* the first existing of "{gender}_{iso}.svg", "_{iso}.svg", "{iso}.svg"
ClaimedIcon(gender, country) ==
    IF Lower(country) \notin DOMAIN country_mappings THEN None
    ELSE LET iso == country_mappings[Lower(country)]
             gendered == NormGender(gender) \o "_" \o iso \o ".svg"
             neutral == "_" \o iso \o ".svg"
             bare == iso \o ".svg"
         IN  IF gendered \in icon_fs THEN "icons/" \o gendered
             ELSE IF neutral \in icon_fs THEN "icons/" \o neutral
             ELSE IF bare \in icon_fs THEN "icons/" \o bare
             ELSE None

\* C13: the icon of every rendered record is the first existing candidate in
\* the order "{gender}_{iso}.svg", "_{iso}.svg", "{iso}.svg" with gender
\* normalised to male, female or empty (so "_{iso}.svg" wins over "{iso}.svg"
\* for an empty or unrecognised gender), and a record is left out exactly
\* when its country is unmapped or no candidate exists.
C13_IconCandidateOrder ==
    pc = "rendered" =>
        /\ \A k \in 1..Len(RenderedItems) :
              \E i \in 1..Len(audio_data) :
                  /\ BlockOfRecord(RenderedItems[k], audio_data[i])
                  /\ RenderedItems[k].src =
                        ClaimedIcon(audio_data[i].gender, audio_data[i].country)
        /\ \A i \in 1..Len(audio_data) :
              (ClaimedIcon(audio_data[i].gender, audio_data[i].country) = None)
              <=> (\A k \in 1..Len(RenderedItems) :
                      ~BlockOfRecord(RenderedItems[k], audio_data[i]))

-----------------------------------------------------------------------------
(* Properties of the interrupt handling and of the committed rows *)

\* a group is being written: the iteration has rendered or inserted something
\* and has not yet gone on to the next group
GroupInProgress == ai # 0 \/ word_id # 0 \/ html_content # <<>>

\* C14: the interrupt is polled: a run that a signal has stopped stopped at an
\* iteration boundary, never in the middle of the write of a group; the group
\* in progress when the signal arrived was written to its end first.
C14_PolledInterrupt ==
    pc = "exited" => ~GroupInProgress

\* C15: in every committed state each Word Entry has as many Audio File
\* Entries of its id as its audio_count says.
C15_AudioRowsMatchCount ==
    \A w \in db.image.words :
        Cardinality({a \in db.image.audio_files : a.word_id = w.id})
            = w.audio_count

\* C16: every Word Group key, every Word Entry and every Simplified Entry has
\* a non-empty language and a non-empty headword, also when the headword was
\* replaced by the decoded query_word.
C16_NonEmptyKeys ==
    /\ \A i \in 1..Len(word_audio_map) :
          word_audio_map[i].key[1] # "" /\ word_audio_map[i].key[2] # ""
    /\ \A w \in WordRows : w.language # "" /\ w.headword # ""
    /\ \A m \in MdxRows : m.language # "" /\ m.entry # ""

=============================================================================
